---- MODULE Spec2Model ----
(***************************************************************************)
(* Graph workflows of the repository: the sentiment graph of               *)
(* src/langGraph/langGraph.py and the yes/no graph of                      *)
(* src/output_parser/output_parser.py, run by the graph executor that      *)
(* spec.md sections 3, 4 and 7 describe (the executor itself is the        *)
(* langgraph package, whose code is not part of the repository).           *)
(*                                                                         *)
(* Texts are sequences of one-character strings, so that str.lower() and   *)
(* the substring test `word in input_text` are computed, not assumed.      *)
(***************************************************************************)
EXTENDS Integers, Sequences, FiniteSets, TLC

VARIABLES
    definition,   \* the graph definition handed to compile()
    compiled,     \* "no", "ok" or "ValidationError"
    calls,        \* one record per invoke call on the compiled graph
    dotenv_file,  \* the variables the .env file defines
    environ,      \* os.environ of the process running the scripts
    config,       \* the globals of module config once it is imported
    image,        \* generate_image: imported or not, and the calls made
    explain       \* explain_concept: the chain's result and the exit status

graphVars ==
    <<definition, compiled, calls>>

scriptVars ==
    <<dotenv_file, environ, config, image, explain>>

vars ==
    <<definition, compiled, calls, dotenv_file, environ, config, image, explain>>

\* The invoke calls made on the compiled graph.
Invocations ==
    {"first", "second"}

(***************************************************************************)
(* Texts given to the sentiment graph.                                     *)
(***************************************************************************)
\* "This is a great product!"
GreatProduct ==
    <<"T", "h", "i", "s", " ", "i", "s", " ", "a", " ", "g", "r", "e", "a", "t", " ",
      "p", "r", "o", "d", "u", "c", "t", "!">>

\* "This is a great product! I love it!"
TestInput1 ==
    <<"T", "h", "i", "s", " ", "i", "s", " ", "a", " ", "g", "r", "e", "a", "t", " ",
      "p", "r", "o", "d", "u", "c", "t", "!", " ", "I", " ", "l", "o", "v", "e", " ",
      "i", "t", "!">>

\* "This is terrible. I hate this experience."
TestInput2 ==
    <<"T", "h", "i", "s", " ", "i", "s", " ", "t", "e", "r", "r", "i", "b", "l", "e",
      ".", " ", "I", " ", "h", "a", "t", "e", " ", "t", "h", "i", "s", " ", "e", "x",
      "p", "e", "r", "i", "e", "n", "c", "e", ".">>

\* "The weather is okay today."
TestInput3 ==
    <<"T", "h", "e", " ", "w", "e", "a", "t", "h", "e", "r", " ", "i", "s", " ", "o",
      "k", "a", "y", " ", "t", "o", "d", "a", "y", ".">>

\* "GOOD but bad"
GoodButBad ==
    <<"G", "O", "O", "D", " ", "b", "u", "t", " ", "b", "a", "d">>

\* "Goodbye"
Goodbye ==
    <<"G", "o", "o", "d", "b", "y", "e">>

\* ""
EmptyText ==
    <<>>

Texts ==
    {GreatProduct, TestInput1, TestInput2, TestInput3, GoodButBad, Goodbye, EmptyText}

(***************************************************************************)
(* str.lower() on ASCII text.                                              *)
(***************************************************************************)
UpperToLower ==
    ("A" :> "a") @@ ("B" :> "b") @@ ("C" :> "c") @@ ("D" :> "d") @@ ("E" :> "e") @@
    ("F" :> "f") @@ ("G" :> "g") @@ ("H" :> "h") @@ ("I" :> "i") @@ ("J" :> "j") @@
    ("K" :> "k") @@ ("L" :> "l") @@ ("M" :> "m") @@ ("N" :> "n") @@ ("O" :> "o") @@
    ("P" :> "p") @@ ("Q" :> "q") @@ ("R" :> "r") @@ ("S" :> "s") @@ ("T" :> "t") @@
    ("U" :> "u") @@ ("V" :> "v") @@ ("W" :> "w") @@ ("X" :> "x") @@ ("Y" :> "y") @@
    ("Z" :> "z")

LowerChar(c) ==
    IF c \in DOMAIN UpperToLower THEN UpperToLower[c] ELSE c

Lower(text) ==
    [i \in 1..Len(text) |-> LowerChar(text[i])]

\* `word in text` of Python: word occurs as a contiguous substring.
Contains(word, text) ==
    \E i \in 1..(Len(text) - Len(word) + 1) :
        SubSeq(text, i, i + Len(word) - 1) = word

(***************************************************************************)
(* Reducers of AgentState.                                                 *)
(***************************************************************************)
\* A counter reducer that trusts the proposed value (old + new).
increment_counter_adds_new(old, new) ==
    old + new

\* A counter reducer that also counts the invoke calls already finished
\* (state kept outside the snapshot).
increment_counter_global(old, new) ==
    old + 1 + Cardinality({i \in Invocations : calls[i].status = "done"})

increment_counter(old, new) ==
    old + 1

\* A list reducer that puts the new elements first.
add_prepends(a, b) ==
    b \o a

\* operator.add on two lists
add(a, b) ==
    a \o b

(***************************************************************************)
(* Step functions of the sentiment graph.  A step returns                  *)
(* [raised |-> FALSE, update |-> u], u a function from the fields it       *)
(* writes to their proposed values, or [raised |-> TRUE].                  *)
(***************************************************************************)
NoUpdate ==
    [f \in {} |-> ""]

Returns(u) ==
    [raised |-> FALSE, update |-> u]

Raises ==
    [raised |-> TRUE, update |-> NoUpdate]

positive_words ==
    { <<"g", "o", "o", "d">>,
      <<"g", "r", "e", "a", "t">>,
      <<"h", "a", "p", "p", "y">>,
      <<"e", "x", "c", "e", "l", "l", "e", "n", "t">>,
      <<"w", "o", "n", "d", "e", "r", "f", "u", "l">>,
      <<"l", "o", "v", "e">> }

negative_words ==
    { <<"b", "a", "d">>,
      <<"s", "a", "d">>,
      <<"t", "e", "r", "r", "i", "b", "l", "e">>,
      <<"a", "w", "f", "u", "l">>,
      <<"h", "a", "t", "e">>,
      <<"p", "o", "o", "r">> }

positive_count(input_text) ==
    Cardinality({word \in positive_words : Contains(word, input_text)})

negative_count(input_text) ==
    Cardinality({word \in negative_words : Contains(word, input_text)})

\* A classifier whose tie goes to "positive" (>= in place of >).
classify_tie_positive(input_text) ==
    IF positive_count(input_text) >= negative_count(input_text) THEN "positive"
    ELSE "negative"

classify(input_text) ==
    IF positive_count(input_text) > negative_count(input_text) THEN "positive"
    ELSE IF negative_count(input_text) > positive_count(input_text) THEN "negative"
    ELSE "neutral"

\* An analysis that records the sentiment in the history only.
analyze_sentiment_history_only(state) ==
    LET sentiment == classify(Lower(state.input))
    IN  Returns([sentiment_history |-> <<sentiment>>,
                 iteration_count |-> 1])

analyze_sentiment(state) ==
    LET sentiment == classify(Lower(state.input))
    IN  Returns([sentiment |-> sentiment,
                 sentiment_history |-> <<sentiment>>,
                 iteration_count |-> 1])

PositiveResponse ==
    "That's wonderful! I'm glad to hear positive feedback. How can I help you further?"

NegativeResponse ==
    "I understand your frustration. Let me help you resolve this issue."

NeutralResponse ==
    "I see. Could you provide more details so I can assist you better?"

handle_positive(state) ==
    Returns([response |-> PositiveResponse, response_history |-> <<PositiveResponse>>])

handle_negative(state) ==
    Returns([response |-> NegativeResponse, response_history |-> <<NegativeResponse>>])

handle_neutral(state) ==
    Returns([response |-> NeutralResponse, response_history |-> <<NeutralResponse>>])

\* A follow-up check that proposes no update.
check_need_followup_no_update(state) ==
    Returns(NoUpdate)

\* `return state`: the whole snapshot comes back as the node's update.
check_need_followup(state) ==
    Returns(state)

(***************************************************************************)
(* Routers of the sentiment graph.                                         *)
(***************************************************************************)
\* A router that falls back to "neutral" on an unknown sentiment.
route_by_sentiment_defaulting(state) ==
    IF state.sentiment \in {"positive", "negative", "neutral"} THEN state.sentiment
    ELSE "neutral"

route_by_sentiment(state) ==
    state.sentiment

max_iterations ==
    2

\* A router whose else branch loops back.
route_by_iteration_loops(state) ==
    IF state.iteration_count >= max_iterations THEN "end" ELSE "reanalyze"

route_by_iteration(state) ==
    IF state.iteration_count >= max_iterations THEN "end" ELSE "end"

(***************************************************************************)
(* The yes/no graph: YesNoResponse.parse_answer and the step functions.    *)
(***************************************************************************)
YES ==
    "yes"

NO ==
    "no"

IsSpace(c) ==
    c \in {" ", "\t", "\n"}

\* str.strip(): drop leading and trailing whitespace.
Strip(text) ==
    LET keep == {i \in 1..Len(text) : ~IsSpace(text[i])}
    IN  IF keep = {} THEN <<>>
        ELSE LET lo == CHOOSE i \in keep : \A j \in keep : i <= j
                 hi == CHOOSE i \in keep : \A j \in keep : j <= i
             IN  SubSeq(text, lo, hi)

yes_words ==
    { <<"y", "e", "s">>, <<"y">>, <<"t", "r", "u", "e">>, <<"1">> }

no_words ==
    { <<"n", "o">>, <<"n">>, <<"f", "a", "l", "s", "e">>, <<"0">> }

\* The values that reach the validator: a YesNoEnum member, or a value of
\* another type with the text str() gives for it.
EnumValue(member) ==
    [type |-> "YesNoEnum", member |-> member, text |-> <<>>]

StrValue(text) ==
    [type |-> "str", member |-> "", text |-> text]

\* str(True) is "True", str(False) is "False".
BoolValue(b) ==
    [type |-> "bool", member |-> "",
     text |-> IF b THEN <<"T", "r", "u", "e">> ELSE <<"F", "a", "l", "s", "e">>]

\* str(None) is "None".
NoneValue ==
    [type |-> "NoneType", member |-> "", text |-> <<"N", "o", "n", "e">>]

\* A validator that lower-cases without trimming.
parse_answer_without_strip(v) ==
    IF v.type = "YesNoEnum" THEN v.member
    ELSE LET v_lower == Lower(v.text)
         IN  IF v_lower \in yes_words THEN YES ELSE NO

\* The validator of YesNoResponse.answer (mode = "before").
parse_answer(v) ==
    IF v.type = "YesNoEnum" THEN v.member
    ELSE LET v_lower == Lower(Strip(v.text))
         IN  IF v_lower \in yes_words THEN YES
             ELSE IF v_lower \in no_words THEN NO
             ELSE NO

\* YesNoResponse(answer = v): the field holds what the validator returns.
YesNoResponse(v) ==
    [answer |-> parse_answer(v)]

\* What chain.invoke does inside ask_question_node: the model answers with
\* a value for `answer`, or the call or the output parser raises.
LLMAnswers ==
    { StrValue(<<"y", "e", "s">>), StrValue(<<" ", "Y", "e", "s", " ">>),
      StrValue(<<"Y">>), StrValue(<<"1">>), StrValue(<<"\t", "T", "R", "U", "E", "\n">>),
      BoolValue(TRUE), BoolValue(FALSE), NoneValue,
      StrValue(<<"n", "o">>), StrValue(<<"N">>), StrValue(<<"0">>),
      StrValue(<<"m", "a", "y", "b", "e">>), StrValue(<<>>),
      StrValue(<<"y", "e", "s", "!">>), StrValue(<<"y", " ", "e", "s">>) }

LLMOutcomes ==
    {[kind |-> "answer", value |-> v] : v \in LLMAnswers} \cup
    {[kind |-> "error", value |-> NoneValue], [kind |-> "parse_error", value |-> NoneValue]}

NoLLM ==
    [kind |-> "unused", value |-> NoneValue]

ErrorMessage ==
    "Error occurred: chain.invoke failed"

\* A node without the try/except: a failing chain.invoke raises.
ask_question_node_propagates(state, llm) ==
    IF llm.kind = "answer"
    THEN LET parsed_result == YesNoResponse(llm.value)
         IN  Returns([question |-> state.question,
                      raw_response |-> parsed_result.answer,
                      parsed_response |-> parsed_result,
                      action_taken |-> "",
                      result_message |-> ""])
    ELSE Raises

ask_question_node(state, llm) ==
    IF llm.kind = "answer"
    THEN LET parsed_result == YesNoResponse(llm.value)
         IN  Returns([question |-> state.question,
                      raw_response |-> parsed_result.answer,
                      parsed_response |-> parsed_result,
                      action_taken |-> "",
                      result_message |-> ""])
    ELSE Returns([question |-> state.question,
                  raw_response |-> "error",
                  parsed_response |-> YesNoResponse(EnumValue(NO)),
                  action_taken |-> "",
                  result_message |-> ErrorMessage])

PositiveAction ==
    "Positive Action Executed"

PositiveMessage ==
    "Great! The answer is YES. Proceeding with the affirmative workflow."

NegativeAction ==
    "Negative Action Executed"

NegativeMessage ==
    "The answer is NO. Following the negative workflow path."

\* {**state, "action_taken": ..., "result_message": ...}
action_positive_node(state) ==
    Returns([state EXCEPT !.action_taken = PositiveAction,
                          !.result_message = PositiveMessage])

\* A negative action that builds its update afresh, as ask_question does.
action_negative_node_resets(state) ==
    Returns([question |-> state.question,
             raw_response |-> "",
             parsed_response |-> state.parsed_response,
             action_taken |-> NegativeAction,
             result_message |-> NegativeMessage])

\* A negative action that records the action and leaves the message.
action_negative_node_keeps_message(state) ==
    Returns([state EXCEPT !.action_taken = NegativeAction])

action_negative_node(state) ==
    Returns([state EXCEPT !.action_taken = NegativeAction,
                          !.result_message = NegativeMessage])

finalize_node(state) ==
    Returns(state)

\* A router that sends every answer down the positive path.
route_by_response_always_positive(state) ==
    "positive"

route_by_response(state) ==
    IF state.parsed_response.answer = YES THEN "positive" ELSE "negative"

(***************************************************************************)
(* State schemas: the declared fields, in declaration order, and the       *)
(* reducer annotated on each ("Replace" where none is annotated).          *)
(***************************************************************************)
AgentState ==
    [fields  |-> <<"input", "sentiment", "response", "sentiment_history",
                   "response_history", "iteration_count">>,
     reducer |-> [input |-> "Replace", sentiment |-> "Replace", response |-> "Replace",
                  sentiment_history |-> "add", response_history |-> "add",
                  iteration_count |-> "increment_counter"]]

QuestionState ==
    [fields  |-> <<"question", "raw_response", "parsed_response", "action_taken",
                   "result_message">>,
     reducer |-> [question |-> "Replace", raw_response |-> "Replace",
                  parsed_response |-> "Replace", action_taken |-> "Replace",
                  result_message |-> "Replace"]]

(***************************************************************************)
(* Graph definitions.  `direct` holds the pairs of add_edge, `conditional` *)
(* the records of add_conditional_edges; add_edge(START, n) sets `entry`.  *)
(***************************************************************************)
END ==
    "__end__"

\* A sentiment mapping with "neutral" wired to the negative handler.
sentiment_routes_miswired ==
    [positive |-> "handle_positive",
     negative |-> "handle_negative",
     neutral  |-> "handle_negative"]

\* The mapping of the conditional edge out of analyze_sentiment.
sentiment_routes ==
    [positive |-> "handle_positive",
     negative |-> "handle_negative",
     neutral  |-> "handle_neutral"]

\* A follow-up mapping whose loop-back label leads to END.
followup_routes_no_loop ==
    [end |-> END, reanalyze |-> END]

\* The mapping of the conditional edge out of check_followup.
followup_routes ==
    [end |-> END, reanalyze |-> "analyze_sentiment"]

create_sentiment_graph ==
    [schema |-> AgentState,
     nodes  |-> [analyze_sentiment |-> "analyze_sentiment",
                 handle_positive   |-> "handle_positive",
                 handle_negative   |-> "handle_negative",
                 handle_neutral    |-> "handle_neutral",
                 check_followup    |-> "check_need_followup"],
     entry  |-> "analyze_sentiment",
     direct |-> { <<"handle_positive", "check_followup">>,
                  <<"handle_negative", "check_followup">>,
                  <<"handle_neutral", "check_followup">> },
     conditional |->
        { [from |-> "analyze_sentiment", router |-> "route_by_sentiment",
           labelToNode |-> sentiment_routes],
          [from |-> "check_followup", router |-> "route_by_iteration",
           labelToNode |-> followup_routes] }]

\* The yes/no graph with a direct edge added out of ask_question, which
\* already has its conditional edge.
create_question_workflow_conflicting ==
    [schema |-> QuestionState,
     nodes  |-> [ask_question    |-> "ask_question_node",
                 action_positive |-> "action_positive_node",
                 action_negative |-> "action_negative_node",
                 finalize        |-> "finalize_node"],
     entry  |-> "ask_question",
     direct |-> { <<"ask_question", "finalize">>,
                  <<"action_positive", "finalize">>,
                  <<"action_negative", "finalize">>,
                  <<"finalize", END>> },
     conditional |->
        { [from |-> "ask_question", router |-> "route_by_response",
           labelToNode |-> [positive |-> "action_positive",
                            negative |-> "action_negative"]] }]

create_question_workflow ==
    [schema |-> QuestionState,
     nodes  |-> [ask_question    |-> "ask_question_node",
                 action_positive |-> "action_positive_node",
                 action_negative |-> "action_negative_node",
                 finalize        |-> "finalize_node"],
     entry  |-> "ask_question",
     direct |-> { <<"action_positive", "finalize">>,
                  <<"action_negative", "finalize">>,
                  <<"finalize", END>> },
     conditional |->
        { [from |-> "ask_question", router |-> "route_by_response",
           labelToNode |-> [positive |-> "action_positive",
                            negative |-> "action_negative"]] }]

\* The labels a router is declared to return (its Literal[...] annotation).
\* "always_reanalyze" is the router of the looping graph below.
RouterCodomain_without_neutral(router) ==
    CASE router = "route_by_sentiment" -> {"positive", "negative"}
      [] router = "route_by_iteration" -> {"end", "reanalyze"}
      [] router = "always_reanalyze"   -> {"end", "reanalyze"}
      [] router = "route_by_response"  -> {"positive", "negative"}

RouterCodomain(router) ==
    CASE router = "route_by_sentiment" -> {"positive", "negative", "neutral"}
      [] router = "route_by_iteration" -> {"end", "reanalyze"}
      [] router = "always_reanalyze"   -> {"end", "reanalyze"}
      [] router = "route_by_response"  -> {"positive", "negative"}

(***************************************************************************)
(* Graph definitions handed to the executor besides the two of the         *)
(* repository: the same graphs with one label, router, step function or    *)
(* reducer changed.                                                        *)
(***************************************************************************)
WithoutLabel(g, from, label) ==
    [g EXCEPT !.conditional =
        { IF e.from = from
          THEN [e EXCEPT !.labelToNode =
                   [l \in (DOMAIN e.labelToNode) \ {label} |-> e.labelToNode[l]]]
          ELSE e : e \in g.conditional }]

WithRouter(g, from, router) ==
    [g EXCEPT !.conditional =
        { IF e.from = from THEN [e EXCEPT !.router = router] ELSE e :
          e \in g.conditional }]

WithStep(g, node, step) ==
    [g EXCEPT !.nodes[node] = step]

WithReducer(g, field, policy) ==
    [g EXCEPT !.schema.reducer[field] = policy]

WithDirect(g, from, to) ==
    [g EXCEPT !.direct = @ \cup { <<from, to>> }]

DefinitionNames ==
    { "sentiment", "question",
      "sentiment_without_neutral", "followup_without_reanalyze",
      "always_reanalyze", "unwritten_sentiment", "raising_reducer",
      "raising_ask", "raising_action", "undeclared_field", "conflicting_edges" }

Definition(name) ==
    CASE name = "sentiment" -> create_sentiment_graph
      [] name = "question"  -> create_question_workflow
      [] name = "sentiment_without_neutral" ->
            WithoutLabel(create_sentiment_graph, "analyze_sentiment", "neutral")
      [] name = "followup_without_reanalyze" ->
            WithoutLabel(create_sentiment_graph, "check_followup", "reanalyze")
      [] name = "always_reanalyze" ->
            WithRouter(create_sentiment_graph, "check_followup", "always_reanalyze")
      [] name = "unwritten_sentiment" ->
            WithStep(create_sentiment_graph, "analyze_sentiment", "no_update_step")
      [] name = "raising_reducer" ->
            WithReducer(create_sentiment_graph, "response_history", "raising_reducer")
      [] name = "raising_ask" ->
            WithStep(create_question_workflow, "ask_question", "raising_step")
      [] name = "raising_action" ->
            WithStep(create_question_workflow, "action_negative", "raising_step")
      [] name = "undeclared_field" ->
            WithStep(create_sentiment_graph, "handle_neutral", "undeclared_field_step")
      [] name = "conflicting_edges" ->
            WithDirect(create_sentiment_graph, "analyze_sentiment", "check_followup")

\* The step function registered under a name, applied to a snapshot.
StepFn(step, state, llm) ==
    CASE step = "analyze_sentiment"    -> analyze_sentiment(state)
      [] step = "handle_positive"      -> handle_positive(state)
      [] step = "handle_negative"      -> handle_negative(state)
      [] step = "handle_neutral"       -> handle_neutral(state)
      [] step = "check_need_followup"  -> check_need_followup(state)
      [] step = "ask_question_node"    -> ask_question_node(state, llm)
      [] step = "action_positive_node" -> action_positive_node(state)
      [] step = "action_negative_node" -> action_negative_node(state)
      [] step = "finalize_node"        -> finalize_node(state)
      [] step = "no_update_step"       -> Returns(NoUpdate)
      [] step = "raising_step"         -> Raises
      [] step = "undeclared_field_step" ->
            Returns([response |-> NeutralResponse, confidence |-> 1])

RouterFn(router, state) ==
    CASE router = "route_by_sentiment" -> route_by_sentiment(state)
      [] router = "route_by_iteration" -> route_by_iteration(state)
      [] router = "route_by_response"  -> route_by_response(state)
      [] router = "always_reanalyze"   -> "reanalyze"

(***************************************************************************)
(* Reducer registry (spec.md 4.1).                                         *)
(***************************************************************************)
\* A default policy that keeps the old value.
Replace_keeps_old(old, new) ==
    old

Replace(old, new) ==
    new

\* The declared fields of a schema.
Fields(schema) ==
    {schema.fields[k] : k \in 1..Len(schema.fields)}

ReducerRaises(policy) ==
    policy = "raising_reducer"

merge(policy, old, new) ==
    CASE policy = "Replace"           -> Replace(old, new)
      [] policy = "add"               -> add(old, new)
      [] policy = "increment_counter" -> increment_counter(old, new)

\* Merge an update into a snapshot field by field, in declaration order,
\* from field k on; stops at the first reducer that raises.
RECURSIVE MergeFrom(_, _, _, _)
MergeFrom(schema, snapshot, update, k) ==
    IF k > Len(schema.fields) THEN [raised |-> FALSE, snapshot |-> snapshot]
    ELSE LET f == schema.fields[k]
         IN  IF f \notin DOMAIN update
             THEN MergeFrom(schema, snapshot, update, k + 1)
             ELSE IF ReducerRaises(schema.reducer[f])
             THEN [raised |-> TRUE, snapshot |-> snapshot]
             ELSE MergeFrom(schema,
                            [snapshot EXCEPT ![f] = merge(schema.reducer[f], @, update[f])],
                            update, k + 1)

MergeUpdate(schema, snapshot, update) ==
    MergeFrom(schema, snapshot, update, 1)

(***************************************************************************)
(* Compilation (spec.md 4.3, 4.4 rule 4, 7 ValidationError).               *)
(***************************************************************************)
NodeKeys(g) ==
    DOMAIN g.nodes

OutgoingDirect(g, n) ==
    {e \in g.direct : e[1] = n}

OutgoingConditional(g, n) ==
    {e \in g.conditional : e.from = n}

Validate(g) ==
    /\ g.entry \in NodeKeys(g)
    /\ \A e \in g.direct : e[1] \in NodeKeys(g) /\ e[2] \in NodeKeys(g) \cup {END}
    /\ \A e \in g.conditional :
          /\ e.from \in NodeKeys(g)
          /\ \A l \in DOMAIN e.labelToNode : e.labelToNode[l] \in NodeKeys(g) \cup {END}
          /\ RouterCodomain(e.router) \subseteq DOMAIN e.labelToNode
    /\ \A n \in NodeKeys(g) :
          Cardinality(OutgoingDirect(g, n)) + Cardinality(OutgoingConditional(g, n)) = 1

(***************************************************************************)
(* Initial states handed to invoke.                                        *)
(***************************************************************************)
\* The initial_state of run_graph_example for a text.
initial_state(test_input) ==
    [input |-> test_input, sentiment |-> "", response |-> "",
     sentiment_history |-> <<>>, response_history |-> <<>>, iteration_count |-> 0]

\* Initial states a caller may also pass: fields already filled.
CarriedStates ==
    { [input |-> GreatProduct, sentiment |-> "mixed", response |-> "earlier response",
       sentiment_history |-> <<"neutral">>, response_history |-> <<"earlier response">>,
       iteration_count |-> 1],
      [input |-> TestInput3, sentiment |-> "positive", response |-> "",
       sentiment_history |-> <<>>, response_history |-> <<>>, iteration_count |-> 2],
      [input |-> TestInput2, sentiment |-> "", response |-> "",
       sentiment_history |-> <<"negative", "neutral">>, response_history |-> <<>>,
       iteration_count |-> 5],
      [input |-> Goodbye, sentiment |-> "", response |-> "",
       sentiment_history |-> <<>>, response_history |-> <<>>,
       iteration_count |-> -1] }

AgentInitialStates ==
    {initial_state(t) : t \in Texts} \cup CarriedStates

\* The initial_state of run_output_parser_example for a question.
question_initial_state(question) ==
    [question |-> question, raw_response |-> "",
     parsed_response |-> YesNoResponse(EnumValue(NO)), action_taken |-> "", result_message |-> ""]

QuestionInitialStates ==
    { question_initial_state("Is Python a programming language?"),
      question_initial_state("Is the sky green?"),
      [question |-> "Do humans need water to survive?", raw_response |-> "yes",
       parsed_response |-> YesNoResponse(EnumValue(YES)), action_taken |-> PositiveAction,
       result_message |-> PositiveMessage] }

InitialStates(g) ==
    IF g.schema = QuestionState THEN QuestionInitialStates ELSE AgentInitialStates

\* Only ask_question_node calls the model.
Oracles(g) ==
    IF g.schema = QuestionState THEN LLMOutcomes ELSE {NoLLM}

(***************************************************************************)
(* The compiled executor (spec.md 4.4, 5, 7).  One record per invoke call: *)
(* its position, its snapshot, and what it has done so far.                *)
(***************************************************************************)
StepBudget ==
    6

IdleCall ==
    [status |-> "idle", current |-> "", init |-> NoUpdate, llm |-> NoLLM,
     state |-> NoUpdate, visits |-> <<>>, updates |-> <<>>, labels |-> <<>>,
     outcome |-> "none", returned |-> {}]

StartCall(g, init, llm) ==
    [IdleCall EXCEPT !.status = "running", !.current = g.entry, !.init = init,
                     !.llm = llm, !.state = init]

\* A failure that hands the snapshot reached so far back to the caller.
Fail_returns_snapshot(c, error) ==
    [c EXCEPT !.status = "done", !.outcome = error, !.returned = {c.state}]

Fail(c, error) ==
    [c EXCEPT !.status = "done", !.outcome = error, !.returned = {}]

\* Step 1 of the traversal: at END the accumulated snapshot is returned.
Return(c) ==
    [c EXCEPT !.status = "done", !.outcome = "END", !.returned = {c.state}]

\* The node after `current`: its direct edge, or its router's label looked
\* up in labelToNode; [routed |-> FALSE] when the label has no entry.
NextNode(g, current, snapshot) ==
    IF OutgoingDirect(g, current) # {}
    THEN LET e == CHOOSE e \in OutgoingDirect(g, current) : TRUE
         IN  [routed |-> TRUE, to |-> e[2], labels |-> <<>>]
    ELSE LET e == CHOOSE e \in OutgoingConditional(g, current) : TRUE
             label == RouterFn(e.router, snapshot)
         IN  IF label \in DOMAIN e.labelToNode
             THEN [routed |-> TRUE, to |-> e.labelToNode[label],
                   labels |-> << <<e.router, label>> >>]
             ELSE [routed |-> FALSE, to |-> current,
                   labels |-> << <<e.router, label>> >>]

\* An update check that lets undeclared fields through (the merge then
\* drops them).
WellFormed_accepts_all(schema, update) ==
    TRUE

\* A PartialUpdate names declared fields only (spec.md 3).
WellFormed(schema, update) ==
    DOMAIN update \subseteq Fields(schema)

\* A router handed the snapshot from before the merge.
RouterInput_stale(old, merged) ==
    old

\* The snapshot a router is invoked on: the merged one (spec.md 4.4 step 3).
RouterInput(old, merged) ==
    merged

\* A node visit that merges the node's update a second time.
VisitNode_merges_twice(g, c) ==
    LET r       == StepFn(g.nodes[c.current], c.state, c.llm)
        visited == [c EXCEPT !.visits = Append(@, c.current)]
    IN  IF r.raised THEN Fail(visited, "NodeExecutionError")
        ELSE IF ~WellFormed(g.schema, r.update) THEN Fail(visited, "DefinitionError")
        ELSE LET m1   == MergeUpdate(g.schema, c.state, r.update)
                 m    == IF m1.raised THEN m1
                         ELSE MergeUpdate(g.schema, m1.snapshot, r.update)
                 done == [visited EXCEPT !.updates = Append(@, r.update),
                                         !.state = m.snapshot]
             IN  IF m.raised THEN Fail(done, "ReducerError")
                 ELSE LET n == NextNode(g, c.current, RouterInput(c.state, m.snapshot))
                          routed == [done EXCEPT !.labels = @ \o n.labels]
                      IN  IF n.routed THEN [routed EXCEPT !.current = n.to]
                          ELSE Fail(routed, "RoutingError")

\* One node visit: the step function, the merge of its update, the edge.
VisitNode(g, c) ==
    LET r       == StepFn(g.nodes[c.current], c.state, c.llm)
        visited == [c EXCEPT !.visits = Append(@, c.current)]
    IN  IF r.raised THEN Fail(visited, "NodeExecutionError")
        ELSE IF ~WellFormed(g.schema, r.update) THEN Fail(visited, "DefinitionError")
        ELSE LET m    == MergeUpdate(g.schema, c.state, r.update)
                 done == [visited EXCEPT !.updates = Append(@, r.update),
                                         !.state = m.snapshot]
             IN  IF m.raised THEN Fail(done, "ReducerError")
                 ELSE LET n == NextNode(g, c.current, RouterInput(c.state, m.snapshot))
                          routed == [done EXCEPT !.labels = @ \o n.labels]
                      IN  IF n.routed THEN [routed EXCEPT !.current = n.to]
                          ELSE Fail(routed, "RoutingError")

(***************************************************************************)
(* The scripts outside the graphs: config.py, generate_image.py and        *)
(* explain_concept.py.  Python values are records of their type and text;  *)
(* os.environ and the .env file are functions from the names they define.  *)
(***************************************************************************)
PyNone ==
    [type |-> "NoneType", text |-> ""]

PyStr(text) ==
    [type |-> "str", text |-> text]

\* str(v): the text of a str, "None" for None.
str(v) ==
    IF v.type = "NoneType" THEN "None" ELSE v.text

\* bool(v) of a str or None.
Truthy(v) ==
    v.type = "str" /\ v.text # ""

\* os.getenv(name)
getenv(env, name) ==
    IF name \in DOMAIN env THEN PyStr(env[name]) ELSE PyNone

\* os.environ[name] = value
setenv(env, name, value) ==
    [n \in DOMAIN env \cup {name} |-> IF n = name THEN value ELSE env[n]]

\* load_dotenv(): variables of .env enter os.environ unless already set.
load_dotenv(file, env) ==
    [n \in DOMAIN env \cup DOMAIN file |-> IF n \in DOMAIN env THEN env[n] ELSE file[n]]

\* The globals of config.py whose name isupper().
UppercaseGlobals ==
    {"GEMINI_API_KEY", "REPLICATE_API_TOKEN"}

NotImported ==
    [loaded |-> FALSE, GEMINI_API_KEY |-> PyNone, REPLICATE_API_TOKEN |-> PyNone]

\* Importing config: load_dotenv(), then the two os.getenv assignments.
import_config(file, env) ==
    LET loaded == load_dotenv(file, env)
    IN  [environ |-> loaded,
         config  |-> [loaded |-> TRUE,
                      GEMINI_API_KEY |-> getenv(loaded, "GEMINI_API_KEY"),
                      REPLICATE_API_TOKEN |-> getenv(loaded, "REPLICATE_API_TOKEN")]]

RECURSIVE SetFrom(_, _, _)
SetFrom(names, cfg, env) ==
    IF names = {} THEN env
    ELSE LET var_name == CHOOSE n \in names : TRUE
         IN  SetFrom(names \ {var_name}, cfg, setenv(env, var_name, str(cfg[var_name])))

\* set_environment(): os.environ[var_name] = str(var_value) for each
\* upper-case global.
set_environment(cfg, env) ==
    SetFrom(UppercaseGlobals, cfg, env)

PlaceholderToken ==
    "your_replicate_token_here"

\* `not api_token or api_token == "your_replicate_token_here"`
TokenMissing(api_token) ==
    ~Truthy(api_token) \/ api_token = PyStr(PlaceholderToken)

\* What replicate.run and requests.get do for one call.
ReplicateOutcomes ==
    {"url", "no_output", "raises"}

DownloadOutcomes ==
    {"200", "404", "raises"}

\* generate_image_with_replicate(prompt, output_path): the value returned
\* and whether replicate.run was called.
generate_image_with_replicate(env, run, download) ==
    LET api_token == getenv(env, "REPLICATE_API_TOKEN")
    IN  IF TokenMissing(api_token)
        THEN [fn |-> "generate_image_with_replicate", raised |-> "",
              result |-> "False", api_called |-> FALSE]
        ELSE [fn |-> "generate_image_with_replicate", raised |-> "",
              result |-> IF run = "url" /\ download = "200" THEN "True" ELSE "False",
              api_called |-> TRUE]

\* call_replicate_api(input_dict): the URL returned or the exception
\* raised, and whether replicate.run was called.
call_replicate_api(env, run) ==
    LET api_token == getenv(env, "REPLICATE_API_TOKEN")
    IN  IF TokenMissing(api_token)
        THEN [fn |-> "call_replicate_api", raised |-> "ValueError",
              result |-> "", api_called |-> FALSE]
        ELSE IF run = "raises"
        THEN [fn |-> "call_replicate_api", raised |-> "ReplicateError",
              result |-> "", api_called |-> TRUE]
        ELSE [fn |-> "call_replicate_api", raised |-> "",
              result |-> IF run = "url" THEN "https://replicate.delivery/image.png" ELSE "None",
              api_called |-> TRUE]

\* What chain.invoke does in explain_concept.py: it returns a text, which
\* may be empty, or raises.
ChainOutcomes ==
    {[kind |-> "result", text |-> "Un ordinateur quantique est ..."],
     [kind |-> "result", text |-> ""],
     [kind |-> "ConnectionError", text |-> ""],
     [kind |-> "TimeoutError", text |-> ""],
     [kind |-> "ValueError", text |-> ""],
     [kind |-> "RuntimeError", text |-> ""]}

\* invoke_llm_chain_with_error_handling(chain, input_data, context): every
\* except clause returns None.
invoke_llm_chain_with_error_handling(outcome) ==
    IF outcome.kind = "result" THEN PyStr(outcome.text)
    ELSE IF outcome.kind = "ConnectionError" THEN PyNone
    ELSE IF outcome.kind = "TimeoutError" THEN PyNone
    ELSE IF outcome.kind = "ValueError" THEN PyNone
    ELSE PyNone

\* `if resultat: ... else: sys.exit(1)` at the end of the script.
exit_status(resultat) ==
    IF Truthy(resultat) THEN 0 ELSE 1

\* The .env files and the environments a process can start with.
NoVariables ==
    [n \in {} |-> ""]

Settings ==
    { NoVariables,
      [n \in {"REPLICATE_API_TOKEN"} |-> "r8_token"],
      [n \in {"REPLICATE_API_TOKEN"} |-> PlaceholderToken],
      [n \in {"REPLICATE_API_TOKEN"} |-> ""],
      [n \in {"GEMINI_API_KEY"} |-> "gemini_key"],
      [n \in {"GEMINI_API_KEY", "REPLICATE_API_TOKEN"} |->
          IF n = "GEMINI_API_KEY" THEN "gemini_key" ELSE "r8_token"] }

MaxRuns ==
    2

IdleImage ==
    [imported |-> FALSE, runs |-> <<>>]

IdleExplain ==
    [status |-> "idle", outcome |-> [kind |-> "not_invoked", text |-> ""],
     resultat |-> PyNone, exit |-> -1]

\* No script has started.
ScriptsIdle ==
    /\ dotenv_file = NoVariables
    /\ environ = NoVariables
    /\ config = NotImported
    /\ image = IdleImage
    /\ explain = IdleExplain

Init ==
    /\ definition \in DefinitionNames
    /\ compiled = "no"
    /\ calls = [i \in Invocations |-> IdleCall]
    /\ ScriptsIdle

\* workflow.compile()
Compile ==
    /\ compiled = "no"
    /\ compiled' = IF Validate(Definition(definition)) THEN "ok" ELSE "ValidationError"
    /\ UNCHANGED <<definition, calls, scriptVars>>

\* app.invoke(initial_state)
Invoke(i) ==
    /\ compiled = "ok"
    /\ calls[i].status = "idle"
    /\ \E init \in InitialStates(Definition(definition)) :
       \E llm \in Oracles(Definition(definition)) :
          calls' = [calls EXCEPT ![i] = StartCall(Definition(definition), init, llm)]
    /\ UNCHANGED <<definition, compiled, scriptVars>>

Visit(i) ==
    /\ calls[i].status = "running"
    /\ calls[i].current # END
    /\ Len(calls[i].visits) < StepBudget
    /\ calls' = [calls EXCEPT ![i] = VisitNode(Definition(definition), @)]
    /\ UNCHANGED <<definition, compiled, scriptVars>>

BudgetExceeded(i) ==
    /\ calls[i].status = "running"
    /\ calls[i].current # END
    /\ Len(calls[i].visits) >= StepBudget
    /\ calls' = [calls EXCEPT ![i] = Fail(@, "StepBudgetExceeded")]
    /\ UNCHANGED <<definition, compiled, scriptVars>>

ReturnAtEnd(i) ==
    /\ calls[i].status = "running"
    /\ calls[i].current = END
    /\ calls' = [calls EXCEPT ![i] = Return(@)]
    /\ UNCHANGED <<definition, compiled, scriptVars>>

Next ==
    \/ Compile
    \/ \E i \in Invocations : Invoke(i)
    \/ \E i \in Invocations : Visit(i)
    \/ \E i \in Invocations : BudgetExceeded(i)
    \/ \E i \in Invocations : ReturnAtEnd(i)

Spec ==
    Init /\ [][Next]_vars

(***************************************************************************)
(* The scripts as a process: config is imported, generate_image is         *)
(* imported (set_environment() runs) and its functions are called;         *)
(* explain_concept runs its chain and exits.  No graph is compiled.        *)
(***************************************************************************)
ScriptInit ==
    /\ definition = "sentiment"
    /\ compiled = "no"
    /\ calls = [i \in Invocations |-> IdleCall]
    /\ dotenv_file \in Settings
    /\ environ \in Settings
    /\ config = NotImported
    /\ image = IdleImage
    /\ explain = IdleExplain

\* `from config import ...`: the module body of config.py runs once.
ImportConfig ==
    /\ ~config.loaded
    /\ environ' = import_config(dotenv_file, environ).environ
    /\ config' = import_config(dotenv_file, environ).config
    /\ UNCHANGED <<graphVars, dotenv_file, image, explain>>

\* The module body of generate_image.py: set_environment().
ImportGenerateImage ==
    /\ config.loaded
    /\ ~image.imported
    /\ environ' = set_environment(config, environ)
    /\ image' = [image EXCEPT !.imported = TRUE]
    /\ UNCHANGED <<graphVars, dotenv_file, config, explain>>

GenerateImage ==
    /\ image.imported
    /\ Len(image.runs) < MaxRuns
    /\ \E run \in ReplicateOutcomes, download \in DownloadOutcomes :
          image' = [image EXCEPT !.runs =
                       Append(@, generate_image_with_replicate(environ, run, download))]
    /\ UNCHANGED <<graphVars, dotenv_file, environ, config, explain>>

CallReplicateApi ==
    /\ image.imported
    /\ Len(image.runs) < MaxRuns
    /\ \E run \in ReplicateOutcomes :
          image' = [image EXCEPT !.runs = Append(@, call_replicate_api(environ, run))]
    /\ UNCHANGED <<graphVars, dotenv_file, environ, config, explain>>

\* explain_concept.py up to `resultat = invoke_llm_chain_with_error_handling(...)`.
ExplainConcept ==
    /\ explain.status = "idle"
    /\ \E outcome \in ChainOutcomes :
          explain' = [explain EXCEPT !.status = "invoked",
                                     !.outcome = outcome,
                                     !.resultat = invoke_llm_chain_with_error_handling(outcome)]
    /\ UNCHANGED <<graphVars, dotenv_file, environ, config, image>>

\* The end of the script: print the result, or sys.exit(1).
ExplainExit ==
    /\ explain.status = "invoked"
    /\ explain' = [explain EXCEPT !.status = "exited", !.exit = exit_status(explain.resultat)]
    /\ UNCHANGED <<graphVars, dotenv_file, environ, config, image>>

ScriptNext ==
    \/ ImportConfig
    \/ ImportGenerateImage
    \/ GenerateImage
    \/ CallReplicateApi
    \/ ExplainConcept
    \/ ExplainExit

ScriptSpec ==
    ScriptInit /\ [][ScriptNext]_vars

(***************************************************************************)
(* Properties.                                                             *)
(***************************************************************************)
Started(c) ==
    c.status # "idle"

Done(c) ==
    c.status = "done"

\* C1: invoking the sentiment graph with "This is a great product!" from
\* the initial state (empty histories, counter 0) ends with sentiment
\* "positive", sentiment_history <<"positive">> and iteration_count 1.
C1_GreatProductFinalState ==
    \A i \in Invocations :
        (/\ definition = "sentiment"
         /\ Done(calls[i])
         /\ calls[i].init = initial_state(GreatProduct))
        => /\ calls[i].outcome = "END"
           /\ \E s \in calls[i].returned :
                 /\ s.sentiment = "positive"
                 /\ s.sentiment_history = <<"positive">>
                 /\ s.iteration_count = 1

HandlerFor(sentiment) ==
    CASE sentiment = "positive" -> "handle_positive"
      [] sentiment = "negative" -> "handle_negative"
      [] sentiment = "neutral"  -> "handle_neutral"

\* The three visits of a call, given the sentiment its first visit wrote.
ThreeVisits(c) ==
    <<"analyze_sentiment", HandlerFor(c.updates[1].sentiment), "check_followup">>

\* C2: one invoke of the sentiment graph visits analyze_sentiment, then
\* the one handler matching the sentiment just computed, then
\* check_followup, then reaches END; nothing is visited twice.
C2_ThreeVisitsInOrder ==
    definition = "sentiment" =>
        \A i \in Invocations :
            LET c == calls[i]
            IN  /\ Len(c.visits) <= 3
                /\ Len(c.visits) >= 1 => c.visits = SubSeq(ThreeVisits(c), 1, Len(c.visits))
                /\ (Started(c) /\ c.current = END) <=> Len(c.visits) = 3
                /\ Done(c) => c.outcome = "END" /\ Len(c.visits) = 3

C2_Witness ==
    /\ definition = "sentiment"
    /\ \E i \in Invocations :
          /\ Done(calls[i])
          /\ calls[i].init.iteration_count = 0
          /\ calls[i].visits = <<"analyze_sentiment", "handle_negative", "check_followup">>

\* C3: in a graph whose follow-up router always loops back, every invoke
\* stops after at most StepBudget node visits with StepBudgetExceeded:
\* each step of a running call adds one visit or, once StepBudget visits
\* are made, ends it with that failure; it returns no state and is never
\* reported as END.
C3_BudgetStopsLoop ==
    [][definition = "always_reanalyze" =>
         \A i \in Invocations :
            LET c == calls[i]
                d == calls'[i]
            IN  /\ Len(d.visits) <= StepBudget
                /\ d.outcome # "END"
                /\ Done(d) => /\ d.outcome = "StepBudgetExceeded"
                              /\ Len(d.visits) = StepBudget
                              /\ d.returned = {}
                /\ (c.status = "running" /\ d # c) =>
                      \/ d.status = "running" /\ Len(d.visits) = Len(c.visits) + 1
                      \/ Done(d) /\ Len(c.visits) = StepBudget]_vars

C3_Witness ==
    /\ definition = "always_reanalyze"
    /\ \E i \in Invocations :
          /\ calls[i].outcome = "StepBudgetExceeded"
          /\ Len(calls[i].visits) = StepBudget
          /\ Len(SelectSeq(calls[i].visits, LAMBDA n : n = "check_followup")) >= 2

\* The conditional edge out of a node of the running definition.
EdgeFrom(n) ==
    CHOOSE e \in OutgoingConditional(Definition(definition), n) : TRUE

HasRouter(n) ==
    OutgoingConditional(Definition(definition), n) # {}

\* The routers invoked after the first k visits of a definition.
RoutedVisits(visits, k) ==
    Len(SelectSeq(SubSeq(visits, 1, k), HasRouter))

\* C4: when a step function or a reducer raises, the traversal aborts at
\* once: the failing node is the last one visited, its router is not
\* invoked, the call returns an error and no state, and nothing of the
\* call changes afterwards.  With a raising ask_question nothing but
\* ask_question is visited; with a raising action_negative every NO answer
\* ends in NodeExecutionError.
C4_RaiseAborts ==
    [][\A i \in Invocations :
         LET c == calls[i]
             d == calls'[i]
         IN  /\ c.outcome \in {"NodeExecutionError", "ReducerError"} => d = c
             /\ d.outcome \in {"NodeExecutionError", "ReducerError"} =>
                   /\ Done(d)
                   /\ d.returned = {}
                   /\ d.current = d.visits[Len(d.visits)]
                   /\ Len(d.labels) = RoutedVisits(d.visits, Len(d.visits) - 1)
             /\ (definition = "raising_ask" /\ Done(d)) =>
                   /\ d.outcome = "NodeExecutionError"
                   /\ d.visits = <<"ask_question">>
                   /\ d.updates = <<>>
             /\ (/\ definition = "raising_action"
                 /\ Done(d)
                 /\ d.state.parsed_response.answer = NO) =>
                   /\ d.outcome = "NodeExecutionError"
                   /\ d.visits = <<"ask_question", "action_negative">>
                   /\ d.returned = {}]_vars

C4_Witness ==
    /\ definition = "raising_action"
    /\ \E i \in Invocations :
          /\ calls[i].outcome = "NodeExecutionError"
          /\ calls[i].visits = <<"ask_question", "action_negative">>
          /\ calls[i].state # calls[i].init
          /\ calls[i].returned = {}

Unmapped(entry) ==
    \E e \in Definition(definition).conditional :
        e.router = entry[1] /\ entry[2] \notin DOMAIN e.labelToNode

\* C5: a router label with no entry in labelToNode ends the invoke with
\* RoutingError: the label is the last thing the call did, no further node
\* is visited and no state is returned; a call that goes on never holds
\* such a label.  In the graph whose first node writes no sentiment, every
\* initial sentiment outside the three labels ends so.
C5_UnmappedLabelFails ==
    \A i \in Invocations :
        LET c == calls[i]
        IN  /\ (\E k \in 1..Len(c.labels) : Unmapped(c.labels[k]))
                  <=> c.outcome = "RoutingError"
            /\ c.outcome = "RoutingError" =>
                  /\ Done(c)
                  /\ c.returned = {}
                  /\ Unmapped(c.labels[Len(c.labels)])
                  /\ \A k \in 1..(Len(c.labels) - 1) : ~Unmapped(c.labels[k])
                  /\ c.current = c.visits[Len(c.visits)]
                  /\ EdgeFrom(c.current).router = c.labels[Len(c.labels)][1]
            /\ (/\ definition = "unwritten_sentiment"
                /\ Done(c)
                /\ c.init.sentiment \notin {"positive", "negative", "neutral"})
                  => c.outcome = "RoutingError" /\ c.visits = <<"analyze_sentiment">>

C5_Witness ==
    /\ definition = "unwritten_sentiment"
    /\ \E i \in Invocations :
          /\ calls[i].outcome = "RoutingError"
          /\ calls[i].labels = << <<"route_by_sentiment", "mixed">> >>
          /\ calls[i].returned = {}

\* C6: a definition whose conditional edge omits a label its router can
\* return fails validation, and no step function or router of it ever
\* runs.
C6_OmittedLabelFailsCompile ==
    definition \in {"sentiment_without_neutral", "followup_without_reanalyze"} =>
        /\ compiled \in {"no", "ValidationError"}
        /\ \A i \in Invocations : calls[i] = IdleCall

C6_Witness ==
    /\ definition = "followup_without_reanalyze"
    /\ compiled = "ValidationError"

\* What the first k updates of a call proposed for a list field, in visit
\* order.
RECURSIVE Contributions(_, _, _)
Contributions(updates, field, k) ==
    IF k = 0 THEN <<>>
    ELSE Contributions(updates, field, k - 1) \o
         (IF field \in DOMAIN updates[k] THEN updates[k][field] ELSE <<>>)

\* The calls whose updates were all merged in full.
Merged(c) ==
    Started(c) /\ c.outcome # "ReducerError"

UsesAgentState ==
    Definition(definition).schema.fields = AgentState.fields

\* C7: a field with the list `add` reducer holds the initial list followed
\* by every visited node's contribution, in visit order: old elements
\* first, nothing dropped, nothing duplicated.
C7_AppendListConcatenates ==
    UsesAgentState =>
        \A i \in Invocations :
            LET c == calls[i]
            IN  Merged(c) =>
                   \A f \in {"sentiment_history", "response_history"} :
                      Definition(definition).schema.reducer[f] = "add" =>
                         c.state[f] =
                            c.init[f] \o Contributions(c.updates, f, Len(c.updates))

C7_Witness ==
    /\ definition = "sentiment"
    /\ \E i \in Invocations :
          /\ Len(calls[i].updates) = 3
          /\ calls[i].init.sentiment_history = <<"neutral">>
          /\ Len(calls[i].updates[3].sentiment_history) = 2
          /\ calls[i].state.sentiment_history =
                <<"neutral", "positive", "neutral", "positive">>

\* The number of the first k updates of a call that contain a field.
RECURSIVE Proposals(_, _, _)
Proposals(updates, field, k) ==
    IF k = 0 THEN 0
    ELSE Proposals(updates, field, k - 1) +
         (IF field \in DOMAIN updates[k] THEN 1 ELSE 0)

\* C8: iteration_count rises by exactly 1 for each update that contains
\* it, whatever value the update proposes, and is unchanged by the others.
C8_CounterCountsUpdates ==
    UsesAgentState =>
        \A i \in Invocations :
            LET c == calls[i]
            IN  Merged(c) =>
                   c.state.iteration_count =
                      c.init.iteration_count +
                      Proposals(c.updates, "iteration_count", Len(c.updates))

C8_Witness ==
    /\ definition = "sentiment"
    /\ \E i \in Invocations :
          /\ Len(calls[i].updates) = 3
          /\ calls[i].init.iteration_count = 5
          /\ calls[i].updates[1].iteration_count = 1
          /\ "iteration_count" \notin DOMAIN calls[i].updates[2]
          /\ calls[i].updates[3].iteration_count = 6
          /\ calls[i].state.iteration_count = 7

\* The value the latest of the first k updates proposed for a field, or
\* the initial value when none of them contains the field.
RECURSIVE LastProposed(_, _, _, _)
LastProposed(init, updates, field, k) ==
    IF k = 0 THEN init[field]
    ELSE IF field \in DOMAIN updates[k] THEN updates[k][field]
    ELSE LastProposed(init, updates, field, k - 1)

\* C9: a field with no declared reducer holds exactly the value the latest
\* update containing it proposed, and its previous value while no update
\* contains it.
C9_UndeclaredFieldsReplace ==
    \A i \in Invocations :
        LET c == calls[i]
            schema == Definition(definition).schema
        IN  Merged(c) =>
               \A k \in 1..Len(schema.fields) :
                  schema.reducer[schema.fields[k]] = "Replace" =>
                     c.state[schema.fields[k]] =
                        LastProposed(c.init, c.updates, schema.fields[k], Len(c.updates))

C9_Witness ==
    \E i \in Invocations :
        \/ /\ definition = "question"
           /\ Done(calls[i])
           /\ calls[i].init.action_taken = PositiveAction
           /\ calls[i].state.action_taken = NegativeAction
           /\ calls[i].state.raw_response = "error"
        \/ /\ definition = "sentiment"
           /\ calls[i].visits = <<"analyze_sentiment", "handle_positive">>
           /\ calls[i].init.sentiment = "mixed"
           /\ calls[i].state.sentiment = "positive"
           /\ calls[i].state.response = PositiveResponse

\* C10: two invoke calls on the same compiled graph from identical initial
\* states, with the same outcome of every external call, agree after the
\* same number of visits on the snapshot, the position and the visits
\* made, and when both have ended on the outcome and the returned state.
C10_Deterministic ==
    \A i, j \in Invocations :
        LET c == calls[i]
            d == calls[j]
        IN  (/\ Started(c) /\ Started(d)
             /\ c.init = d.init
             /\ c.llm = d.llm
             /\ Len(c.visits) = Len(d.visits))
            => /\ c.visits = d.visits
               /\ c.state = d.state
               /\ c.current = d.current
               /\ c.labels = d.labels
               /\ (Done(c) /\ Done(d)) =>
                     c.outcome = d.outcome /\ c.returned = d.returned

C10_Witness ==
    /\ definition = "sentiment"
    /\ Done(calls["first"]) /\ Done(calls["second"])
    /\ calls["first"].init = initial_state(TestInput2)
    /\ calls["second"].init = initial_state(TestInput2)
    /\ calls["first"].returned = calls["second"].returned
    /\ calls["first"].returned # {}

\* One step of a call taken on its own record alone.
StepAlone(g, c) ==
    IF c.status # "running" THEN c
    ELSE IF c.current = END THEN Return(c)
    ELSE IF Len(c.visits) < StepBudget THEN VisitNode(g, c)
    ELSE Fail(c, "StepBudgetExceeded")

\* The record of a call after n steps when no other call runs.
RECURSIVE RunAlone(_, _, _)
RunAlone(g, c, n) ==
    IF n = 0 THEN c ELSE StepAlone(g, RunAlone(g, c, n - 1))

\* The steps a call has taken: its visits, and its return or budget stop.
StepsTaken(c) ==
    Len(c.visits) +
    (IF Done(c) /\ c.outcome \in {"END", "StepBudgetExceeded"} THEN 1 ELSE 0)

\* C11: whatever the interleaving of two invoke calls on one compiled
\* graph, each call is at every point exactly where it would be had it run
\* alone from its own initial state: its snapshot, visits, outcome and
\* returned state owe nothing to the other call, earlier or concurrent.
C11_CallsIsolated ==
    \A i \in Invocations :
        Started(calls[i]) =>
            calls[i] = RunAlone(Definition(definition),
                                StartCall(Definition(definition),
                                          calls[i].init, calls[i].llm),
                                StepsTaken(calls[i]))

C11_Witness ==
    /\ definition = "sentiment"
    /\ calls["first"].status = "running"
    /\ calls["second"].status = "running"
    /\ Len(calls["first"].visits) = 2
    /\ Len(calls["second"].visits) = 1
    /\ calls["first"].init = initial_state(TestInput1)
    /\ calls["second"].init = initial_state(TestInput2)
    /\ calls["first"].state.sentiment_history = <<"positive">>
    /\ calls["second"].state.sentiment_history = <<"negative">>

\* C12: the snapshot of a call holds exactly the declared fields at every
\* point; every update merged names declared fields only; and a node whose
\* update names an undeclared field ends the call with an error and no
\* state, its update unmerged, rather than having the field dropped.
C12_ExactlyDeclaredFields ==
    \A i \in Invocations :
        LET c == calls[i]
            g == Definition(definition)
        IN  Started(c) =>
               /\ DOMAIN c.state = Fields(g.schema)
               /\ \A s \in c.returned : DOMAIN s = Fields(g.schema)
               /\ \A k \in 1..Len(c.updates) : DOMAIN c.updates[k] \subseteq Fields(g.schema)
               /\ c.outcome = "DefinitionError" =>
                     /\ Done(c)
                     /\ c.returned = {}
                     /\ Len(c.updates) = Len(c.visits) - 1
                     /\ ~(DOMAIN StepFn(g.nodes[c.current], c.state, c.llm).update
                             \subseteq Fields(g.schema))
               /\ (/\ definition = "undeclared_field"
                   /\ Len(c.visits) >= 2
                   /\ c.visits[2] = "handle_neutral")
                     => c.outcome = "DefinitionError" /\ Len(c.visits) = 2

C12_Witness ==
    /\ definition = "undeclared_field"
    /\ \E i \in Invocations :
          /\ calls[i].outcome = "DefinitionError"
          /\ calls[i].visits = <<"analyze_sentiment", "handle_neutral">>
          /\ calls[i].state.response = ""
          /\ calls[i].returned = {}

\* The snapshot a call had after its first k visits.
SnapshotAfter(c, k) ==
    RunAlone(Definition(definition),
             StartCall(Definition(definition), c.init, c.llm), k).state

\* The visits of a call whose node has a router, up to visit k.
RoutersUpTo(c, k) ==
    Len(SelectSeq(SubSeq(c.visits, 1, k), HasRouter))

\* C13: the k-th step function of a call is invoked on the snapshot that
\* merges the k-1 earlier updates, and a router is invoked on the snapshot
\* that also merges its own node's update: route_by_sentiment returns the
\* sentiment analyze_sentiment just wrote and route_by_response follows
\* the parsed_response ask_question just wrote, not the value the initial
\* state carried.
C13_StepsSeeMergedSnapshot ==
    \A i \in Invocations :
        LET c == calls[i]
            g == Definition(definition)
        IN  Started(c) =>
               /\ \A k \in 1..Len(c.updates) :
                     c.updates[k] =
                        StepFn(g.nodes[c.visits[k]], SnapshotAfter(c, k - 1), c.llm).update
               /\ \A k \in 1..Len(c.updates) :
                     (HasRouter(c.visits[k]) /\ RoutersUpTo(c, k) <= Len(c.labels)) =>
                        c.labels[RoutersUpTo(c, k)] =
                           << EdgeFrom(c.visits[k]).router,
                              RouterFn(EdgeFrom(c.visits[k]).router, SnapshotAfter(c, k)) >>
               /\ (definition = "sentiment" /\ Len(c.labels) >= 1) =>
                     c.labels[1] = <<"route_by_sentiment", c.updates[1].sentiment>>
               /\ (definition = "question" /\ Len(c.labels) >= 1) =>
                     c.labels[1] =
                        <<"route_by_response",
                          IF c.updates[1].parsed_response.answer = YES
                          THEN "positive" ELSE "negative">>

C13_Witness ==
    \E i \in Invocations :
        /\ definition = "question"
        /\ Len(calls[i].labels) = 1
        /\ calls[i].init.parsed_response.answer = YES
        /\ calls[i].updates[1].parsed_response.answer = NO
        /\ calls[i].labels[1] = <<"route_by_response", "negative">>
        /\ calls[i].current = "action_negative"

\* An update merged once into a snapshot, each field by its reducer.
MergedOnce(schema, snapshot, update) ==
    [f \in DOMAIN snapshot |->
        IF f \in DOMAIN update THEN merge(schema.reducer[f], snapshot[f], update[f])
        ELSE snapshot[f]]

\* The first k updates of a call merged once each, in order.
RECURSIVE Replay(_, _, _, _)
Replay(schema, init, updates, k) ==
    IF k = 0 THEN init
    ELSE MergedOnce(schema, Replay(schema, init, updates, k - 1), updates[k])

Failures ==
    {"NodeExecutionError", "ReducerError", "RoutingError", "StepBudgetExceeded",
     "DefinitionError"}

\* C14: the executor does not retry and substitutes nothing on failure:
\* every visit invokes its step function once (one update, or one failure
\* that ends the call), every update is merged exactly once, a failed call
\* returns no state, and a call that has ended does nothing more.
C14_NoRetryNoDefault ==
    [][\A i \in Invocations :
         LET c == calls[i]
             d == calls'[i]
             schema == Definition(definition).schema
         IN  /\ Done(c) => d = c
             /\ Len(d.visits) =
                   Len(d.updates) +
                   (IF d.outcome \in {"NodeExecutionError", "DefinitionError"} THEN 1 ELSE 0)
             /\ Len(d.visits) <= Len(c.visits) + 1
             /\ Merged(d) => d.state = Replay(schema, d.init, d.updates, Len(d.updates))
             /\ d.outcome \in Failures => Done(d) /\ d.returned = {}]_vars

C14_Witness ==
    /\ definition = "always_reanalyze"
    /\ \E i \in Invocations :
          /\ Len(calls[i].visits) = 5
          /\ Len(calls[i].updates) = 5
          /\ calls[i].visits[4] = "analyze_sentiment"
          /\ calls[i].init.iteration_count = 0
          /\ calls[i].state.iteration_count = 3

\* The outgoing edge definitions of a node: direct and conditional.
EdgeDefinitions(g, n) ==
    Cardinality(OutgoingDirect(g, n)) + Cardinality(OutgoingConditional(g, n))

\* C15: a graph that compiled has at most one outgoing edge definition per
\* node; a definition in which a node has both a direct and a conditional
\* edge ends compile with ValidationError and is never run; the sentiment
\* graph and the yes/no graph have one definition per node and compile.
C15_OneOutgoingEdgeDefinition ==
    LET g == Definition(definition)
    IN  /\ compiled = "ok" => \A n \in NodeKeys(g) : EdgeDefinitions(g, n) <= 1
        /\ (\E n \in NodeKeys(g) : OutgoingDirect(g, n) # {} /\ OutgoingConditional(g, n) # {})
              => /\ compiled \in {"no", "ValidationError"}
                 /\ \A i \in Invocations : calls[i] = IdleCall
        /\ definition \in {"sentiment", "question"} =>
              /\ \A n \in NodeKeys(g) : EdgeDefinitions(g, n) <= 1
              /\ compiled \in {"no", "ok"}

C15_Witness ==
    /\ definition = "conflicting_edges"
    /\ compiled = "ValidationError"
    /\ OutgoingDirect(Definition(definition), "analyze_sentiment") # {}
    /\ OutgoingConditional(Definition(definition), "analyze_sentiment") # {}

\* The labels a call got from route_by_iteration.
IterationLabels(c) ==
    SelectSeq(c.labels, LAMBDA entry : entry[1] = "route_by_iteration")

\* C16: in the sentiment graph route_by_iteration returns "end" whatever
\* iteration_count it reads, at 2 or more and below 2, so no call visits
\* analyze_sentiment a second time or exhausts the step budget: each step
\* of a running call adds one of at most three visits or returns at END.
C16_AlwaysEnds ==
    [][definition = "sentiment" =>
         \A i \in Invocations :
            LET c == calls[i]
                d == calls'[i]
            IN  /\ \A k \in 1..Len(IterationLabels(d)) : IterationLabels(d)[k][2] = "end"
                /\ Len(SelectSeq(d.visits, LAMBDA n : n = "analyze_sentiment")) <= 1
                /\ Len(d.visits) < StepBudget
                /\ d.outcome \in {"none", "END"}
                /\ (c.status = "running" /\ d # c) =>
                      \/ d.status = "running" /\ Len(d.visits) = Len(c.visits) + 1
                      \/ d.outcome = "END" /\ d.visits = c.visits /\ d.returned = {c.state}]_vars

C16_Witness ==
    /\ definition = "sentiment"
    /\ \E i \in Invocations :
          /\ calls[i].outcome = "END"
          /\ calls[i].init.iteration_count = -1
          /\ calls[i].state.iteration_count = 1
          /\ IterationLabels(calls[i]) = << <<"route_by_iteration", "end">> >>

\* C17: visiting check_followup leaves every field of the snapshot as it
\* was: the histories and iteration_count after the visit equal their
\* values before it.
C17_FollowupChangesNothing ==
    [][definition = "sentiment" =>
         \A i \in Invocations :
            LET c == calls[i]
                d == calls'[i]
            IN  (/\ Len(d.visits) = Len(c.visits) + 1
                 /\ d.visits[Len(d.visits)] = "check_followup")
                => /\ d.state.sentiment_history = c.state.sentiment_history
                   /\ d.state.response_history = c.state.response_history
                   /\ d.state.iteration_count = c.state.iteration_count
                   /\ d.state = c.state]_vars

\* The labels a call got from route_by_sentiment.
SentimentLabels(c) ==
    SelectSeq(c.labels, LAMBDA entry : entry[1] = "route_by_sentiment")

\* C18: in the sentiment graph every label route_by_sentiment returns is
\* "positive", "negative" or "neutral", whatever the input text and the
\* sentiment the initial state carried, and no call ends in RoutingError.
C18_SentimentLabelMapped ==
    definition = "sentiment" =>
        \A i \in Invocations :
            /\ \A k \in 1..Len(SentimentLabels(calls[i])) :
                  SentimentLabels(calls[i])[k][2] \in {"positive", "negative", "neutral"}
            /\ calls[i].outcome # "RoutingError"
            /\ Len(calls[i].visits) >= 1 => Len(SentimentLabels(calls[i])) = 1

C18_Witness ==
    /\ definition = "sentiment"
    /\ \E i \in Invocations :
          /\ calls[i].outcome = "END"
          /\ calls[i].init.sentiment = "mixed"
          /\ SentimentLabels(calls[i]) = << <<"route_by_sentiment", "positive">> >>

\* The action node and the action_taken that belong to a parsed answer.
ActionNodeFor(answer) ==
    IF answer = YES THEN "action_positive" ELSE "action_negative"

ActionTakenFor(answer) ==
    IF answer = YES THEN PositiveAction ELSE NegativeAction

\* The answer ask_question parsed in call c (c has visited ask_question).
ParsedAnswer(c) ==
    c.updates[1].parsed_response.answer

QuestionPath(c) ==
    <<"ask_question", ActionNodeFor(ParsedAnswer(c)), "finalize">>

\* C19: every invoke of the yes/no graph visits ask_question, then exactly
\* one action node, then finalize, then END: action_positive exactly when
\* the parsed answer is YES, action_negative otherwise; the final state's
\* action_taken is "Positive Action Executed" exactly when the parsed
\* answer is YES and "Negative Action Executed" otherwise.
C19_OneActionThenFinalize ==
    definition = "question" =>
        \A i \in Invocations :
            LET c == calls[i]
            IN  /\ Len(c.visits) <= 3
                /\ Len(c.updates) = Len(c.visits)
                /\ \A k \in 1..Len(c.visits) : c.visits[k] = QuestionPath(c)[k]
                /\ Done(c) =>
                      /\ c.outcome = "END"
                      /\ Len(c.visits) = 3
                      /\ \E s \in c.returned :
                            /\ c.returned = {s}
                            /\ s.action_taken = ActionTakenFor(ParsedAnswer(c))
                            /\ s.parsed_response.answer = ParsedAnswer(c)

C19_Witness ==
    /\ definition = "question"
    /\ \E i, j \in Invocations :
          /\ calls[i].outcome = "END"
          /\ calls[j].outcome = "END"
          /\ calls[i].visits = <<"ask_question", "action_positive", "finalize">>
          /\ calls[j].visits = <<"ask_question", "action_negative", "finalize">>
          /\ calls[i].init.parsed_response.answer = NO
          /\ calls[j].init.parsed_response.answer = YES

\* C20: when the model call or the output parsing inside ask_question_node
\* fails, the node does not raise: its update has parsed_response NO and
\* raw_response "error", the graph routes to action_negative and the invoke
\* completes at END with a final state, never with NodeExecutionError.
C20_FailureDefaultsToNo ==
    definition = "question" =>
        \A i \in Invocations :
            LET c == calls[i]
            IN  (Started(c) /\ c.llm.kind \in {"error", "parse_error"}) =>
                    /\ c.outcome # "NodeExecutionError"
                    /\ Len(c.visits) >= 1 =>
                          /\ Len(c.updates) >= 1
                          /\ c.updates[1].parsed_response = YesNoResponse(EnumValue(NO))
                          /\ c.updates[1].raw_response = "error"
                          /\ c.labels[1] = <<"route_by_response", "negative">>
                    /\ Len(c.visits) >= 2 => c.visits[2] = "action_negative"
                    /\ Done(c) =>
                          /\ c.outcome = "END"
                          /\ \E s \in c.returned :
                                /\ s.action_taken = NegativeAction
                                /\ s.raw_response = "error"

C20_Witness ==
    /\ definition = "question"
    /\ \E i \in Invocations :
          /\ calls[i].outcome = "END"
          /\ calls[i].llm.kind = "error"
          /\ calls[i].init.parsed_response.answer = YES
          /\ calls[i].visits = <<"ask_question", "action_negative", "finalize">>
          /\ \E s \in calls[i].returned : s.raw_response = "error"

\* The inputs of the validator whose trimmed, lower-cased text is "yes",
\* "y", "true" or "1", listed one by one.
AffirmativeInputs ==
    { StrValue(<<"y", "e", "s">>), StrValue(<<" ", "Y", "e", "s", " ">>),
      StrValue(<<"Y">>), StrValue(<<"1">>),
      StrValue(<<"\t", "T", "R", "U", "E", "\n">>), BoolValue(TRUE) }

ValidatorInputs ==
    LLMAnswers \cup {EnumValue(YES), EnumValue(NO)}

\* C21: parse_answer is total: after trimming and lower-casing, "yes", "y",
\* "true" and "1" give YES and every other value ("no", "n", "false", "0",
\* unclear or malformed text) gives NO; a YesNoEnum member is returned
\* unchanged.  The answer ask_question stores is the validator's result.
C21_ParseAnswerTotal ==
    /\ \A v \in ValidatorInputs :
          /\ parse_answer(v) \in {YES, NO}
          /\ v.type = "YesNoEnum" => parse_answer(v) = v.member
          /\ v.type # "YesNoEnum" => (parse_answer(v) = YES <=> v \in AffirmativeInputs)
    /\ definition = "question" =>
          \A i \in Invocations :
              LET c == calls[i]
              IN  (Len(c.updates) >= 1 /\ c.llm.kind = "answer") =>
                      /\ c.updates[1].parsed_response.answer \in {YES, NO}
                      /\ c.updates[1].parsed_response.answer = YES
                            <=> c.llm.value \in AffirmativeInputs

C21_Witness ==
    /\ definition = "question"
    /\ \E i, j \in Invocations :
          /\ Len(calls[i].updates) >= 1
          /\ Len(calls[j].updates) >= 1
          /\ calls[i].llm = [kind |-> "answer", value |-> StrValue(<<" ", "Y", "e", "s", " ">>)]
          /\ calls[i].updates[1].parsed_response.answer = YES
          /\ calls[j].llm = [kind |-> "answer", value |-> StrValue(<<"y", "e", "s", "!">>)]
          /\ calls[j].updates[1].parsed_response.answer = NO

\* C22: in the yes/no graph the action nodes change only action_taken and
\* result_message and finalize changes nothing: question, raw_response and
\* parsed_response stay as ask_question wrote them up to the final state,
\* and question is the caller's initial question.
C22_ActionsKeepAnswer ==
    [][definition = "question" =>
         \A i \in Invocations :
            LET c == calls[i]
                d == calls'[i]
                visited == d.visits[Len(d.visits)]
            IN  /\ (Len(d.visits) = Len(c.visits) + 1
                      /\ visited \in {"action_positive", "action_negative"})
                   => /\ d.state.question = c.state.question
                      /\ d.state.raw_response = c.state.raw_response
                      /\ d.state.parsed_response = c.state.parsed_response
                /\ (Len(d.visits) = Len(c.visits) + 1 /\ visited = "finalize")
                   => d.state = c.state
                /\ (Done(d) /\ ~Done(c))
                   => /\ d.returned = {c.state}
                      /\ c.state.question = c.init.question
                      /\ c.state.question = c.updates[1].question
                      /\ c.state.raw_response = c.updates[1].raw_response
                      /\ c.state.parsed_response = c.updates[1].parsed_response]_vars

C22_Witness ==
    /\ definition = "question"
    /\ \E i \in Invocations :
          /\ calls[i].outcome = "END"
          /\ calls[i].visits = <<"ask_question", "action_negative", "finalize">>
          /\ calls[i].init.raw_response = "yes"
          /\ \E s \in calls[i].returned :
                /\ s.raw_response = "no"
                /\ s.parsed_response.answer = NO
                /\ s.question = "Do humans need water to survive?"
                /\ s.action_taken = NegativeAction

\* The message of the action node that ran in call c (c has visited it).
ActionMessageOf(c) ==
    IF c.visits[2] = "action_positive" THEN PositiveMessage ELSE NegativeMessage

FailedCall(c) ==
    c.llm.kind \in {"error", "parse_error"}

\* C23: in every completed invoke of the yes/no graph the final
\* result_message is the message of the action node that ran; the "Error
\* occurred" message ask_question writes on failure is overwritten by
\* action_negative and is not in the final state, so a failed model call
\* and a genuine NO answer to the same question differ in the final state
\* only in raw_response.
C23_ErrorMessageOverwritten ==
    definition = "question" =>
        \A i \in Invocations :
            LET c == calls[i]
            IN  Done(c) =>
                  /\ c.outcome = "END"
                  /\ \A s \in c.returned :
                        /\ s.result_message = ActionMessageOf(c)
                        /\ s.result_message # ErrorMessage
                        /\ FailedCall(c) =>
                              /\ c.updates[1].result_message = ErrorMessage
                              /\ c.visits[2] = "action_negative"
                        /\ \A j \in Invocations :
                              LET e == calls[j]
                              IN  (/\ FailedCall(c)
                                   /\ Done(e)
                                   /\ ~FailedCall(e)
                                   /\ e.init.question = c.init.question
                                   /\ e.updates[1].parsed_response.answer = NO)
                                  => \A t \in e.returned :
                                        /\ [s EXCEPT !.raw_response = t.raw_response] = t
                                        /\ s.raw_response = "error"
                                        /\ t.raw_response = "no"

C23_Witness ==
    /\ definition = "question"
    /\ \E i, j \in Invocations :
          /\ calls[i].outcome = "END"
          /\ calls[j].outcome = "END"
          /\ calls[i].llm.kind = "error"
          /\ calls[j].llm = [kind |-> "answer", value |-> StrValue(<<"n", "o">>)]
          /\ calls[i].init = calls[j].init
          /\ calls[i].updates[1].result_message = ErrorMessage
          /\ \E s \in calls[i].returned : s.result_message = NegativeMessage

\* C24: when REPLICATE_API_TOKEN is not configured (absent from the
\* environment and from .env when config is loaded, set_environment() then
\* run at the import of generate_image), call_replicate_api raises
\* ValueError and generate_image_with_replicate returns False, both without
\* calling the Replicate API.
C24_MissingTokenStopsCalls ==
    (image.imported /\ config.REPLICATE_API_TOKEN = PyNone) =>
        \A k \in 1..Len(image.runs) :
            LET r == image.runs[k]
            IN  /\ ~r.api_called
                /\ r.fn = "call_replicate_api" => r.raised = "ValueError"
                /\ r.fn = "generate_image_with_replicate" => r.result = "False"

\* The chain invocation of explain_concept failed: chain.invoke raised.
ChainFailed ==
    explain.outcome.kind # "result"

\* C25: invoke_llm_chain_with_error_handling returns the chain's result
\* when chain.invoke succeeds and None when it raises (connection, timeout,
\* value or other error), and the explain_concept script exits with status
\* 1 exactly when the chain invocation failed.
C25_ExitOneExactlyOnFailure ==
    /\ explain.status # "idle" =>
          /\ ChainFailed => explain.resultat = PyNone
          /\ ~ChainFailed => explain.resultat = PyStr(explain.outcome.text)
    /\ explain.status = "exited" =>
          (explain.exit = 1 <=> ChainFailed)

====
